---- MODULE Spec2Model ----
(***************************************************************************)
(* Mesh-to-3MF packaging of the DragonJewelryBox scripts.                  *)
(*                                                                         *)
(*   SpecDecode  the binary STL decoder (_parse_binary_stl of              *)
(*               export_3mf.py; parse_binary_stl of convert_step_to_3mf.py *)
(*               and modify_axis_models.py are the same code)              *)
(*   Spec        one packaging call: create_3mf (export_3mf.py),           *)
(*               steps_to_combined_3mf (convert_step_to_3mf.py) or         *)
(*               export_combined_3mf (modify_axis_models.py), from its     *)
(*               object loop to the archive at the destination path        *)
(*   SpecRepeat  create_3mf called a second time with the arguments of the *)
(*               first call, over what the first call left on disk         *)
(*   SpecSettings  the settings of export_combined_3mf (reference file,    *)
(*               ASA-GF overlay, caller's override) over the calls of one  *)
(*               run of main                                               *)
(*   SpecGenerate  the part loop and the summary of generate_all.py's main *)
(*                                                                         *)
(* Lengths on the build plate are integers in units of 0.00001 mm, so the  *)
(* 4-decimal formatting of a transform is a visible rounding.  Raw STL     *)
(* coordinates are integers in units of a quarter of 0.000001, so that     *)
(* rounding to 6 decimals maps several raw values to one key and has ties. *)
(***************************************************************************)
EXTENDS Integers, Sequences, FiniteSets, TLC

VARIABLES
    \* ---- decoder (one call of _parse_binary_stl) ----
    data,          \* the byte buffer: [len, count, recs]
    pc,            \* position in _parse_binary_stl
    n_triangles,   \* the header's triangle count, once unpacked
    offset,        \* byte offset of the next record
    rec_i,         \* iterations of `for _ in range(n_triangles)` completed
    vals,          \* the three corners of the record just unpacked
    vi,            \* corner index of the inner loop
    vertices,      \* deduplicated vertex list
    triangles,     \* index triples
    vertex_map,    \* rounded key -> index
    tri_indices,   \* indices of the triangle being built
    raised,        \* exception that left the call ("none" when none)
    \* ---- one packaging call ----
    fn,            \* the function called
    step,          \* position in it
    entries,       \* color_bodies / step_entries / shape_entries: [tag, shape]
    spacing,       \* gap between parts (side-by-side paths)
    profile,       \* profile selector (create_3mf)
    idx,           \* objects the loop has finished
    cursor_x,      \* running X offset
    resources,     \* <object> elements of the model document
    build,         \* <item> elements of the build section
    object_ids,    \* object_ids / object_entries / obj_entries
    placements,    \* per placed object: cursor at placement, box, offsets
    total_width,   \* total_width / total_w
    warned,        \* the WARNING line was printed
    dest0,         \* what the destination path held before the call
    dest,          \* what the destination path holds
    exc,           \* exception that left the packaging call
    first_doc,     \* model document of an earlier call with the same arguments
    \* ---- the settings of export_combined_3mf, call after call ----
    ref_settings,         \* contents of _ref_settings.json
    ORCA_SETTINGS_ASAGF,  \* the module-level overlay dict
    settings_override,    \* the call's settings_override argument
    settings,             \* the call's merged dict
    project_config,       \* the dict handed to json.dumps
    sstep,                \* position in the settings part of the call
    embedded,             \* per finished call: its override and its project settings
    \* ---- generate_all.main ----
    gstep,         \* position in main: the step of the current part, or the summary
    part_i,        \* parts the loop has finished with
    results,       \* main's results list
    attempted,     \* module names whose import was started, in order
    oversize,      \* module names validate_print_bounds printed a WARNING for
    summary        \* the lines of the GENERATION SUMMARY, once printed

decVars == <<data, pc, n_triangles, offset, rec_i, vals, vi, vertices,
             triangles, vertex_map, tri_indices, raised>>

pkgVars == <<fn, step, entries, spacing, profile, idx, cursor_x, resources,
             build, object_ids, placements, total_width, warned, dest0, dest, exc>>

setVars == <<ref_settings, ORCA_SETTINGS_ASAGF, settings_override, settings,
             project_config, sstep, embedded>>

genVars == <<gstep, part_i, results, attempted, oversize, summary>>

vars == <<decVars, pkgVars, first_doc, setVars, genVars>>

----------------------------------------------------------------------------
(* Bounds *)

\* Most triangle records a buffer holds.
MaxRecords == 3

\* Most objects handed to a side-by-side call.
MaxObjects == 3

\* Most color bodies handed to create_3mf.
MaxBodies == 2

\* Most export_combined_3mf calls one run of main makes.
MaxCalls == 2

----------------------------------------------------------------------------
(* Settings dictionaries *)

\* A Python dict is the sequence of its items in insertion order.  A value
\* is a string or a list of strings.
Scalar(str) == [list |-> FALSE, items |-> <<str>>]
ListOf(strs) == [list |-> TRUE, items |-> strs]
Item(k, v) == [key |-> k, val |-> v]

KeySeq(d) == [i \in 1..Len(d) |-> d[i].key]
KeySet(d) == { d[i].key : i \in 1..Len(d) }
\* d[k]
DictGet(d, k) == d[CHOOSE i \in 1..Len(d) : d[i].key = k].val

\* DictSet that leaves a key it already holds as it is (setdefault).
DictSetKeepFirst(d, k, v) ==
    IF k \in KeySet(d) THEN d ELSE Append(d, Item(k, v))

\* DictSet that moves a key it already holds to the end.
DictSetReinsert(d, k, v) ==
    Append(SelectSeq(d, LAMBDA e : e.key # k), Item(k, v))

\* d[k] = v: a key the dict holds keeps its position and gets the new value
\* whole; a new key goes to the end.
DictSet(d, k, v) ==
    IF k \in KeySet(d)
    THEN [i \in 1..Len(d) |-> IF d[i].key = k THEN Item(k, v) ELSE d[i]]
    ELSE Append(d, Item(k, v))

\* d.update(o): o's items are set one by one, in o's order.
RECURSIVE DictUpdateFrom(_, _, _)
DictUpdateFrom(d, o, i) ==
    IF i > Len(o) THEN d
    ELSE DictUpdateFrom(DictSet(d, o[i].key, o[i].val), o, i + 1)
DictUpdate(d, o) == DictUpdateFrom(d, o, 1)

\* d.pop(k, None)
DictPop(d, k) == SelectSeq(d, LAMBDA e : e.key # k)

\* for hdr in ("version", "name", "from")
HeaderKeys == <<"version", "name", "from">>
QIDISTUDIO_VERSION == "02.04.01.11"

\* ORCA_SETTINGS_ASAGF of modify_axis_models.py, five of its 149 items in
\* the dict's order: scalar and list values, keys the motor-mount override
\* replaces and keys it leaves alone.
AsagfOverlay ==
    <<Item("print_settings_id", Scalar("0.20mm Strength ASA-GF @Q2")),
      Item("filament_settings_id", ListOf(<<"Siraya Tech Fibreheart ASA-GF @Qidi Q2 0.4 nozzle">>)),
      Item("printable_area", ListOf(<<"0x0", "270x0", "270x270", "0x270">>)),
      Item("enable_support", Scalar("0")),
      Item("support_type", Scalar("tree(auto)"))>>

\* settings_override is None (or an empty dict): `if settings_override:`
\* skips the update.
NoOverride == <<>>
\* The override main passes for the motor mounts (keys of the overlay, then
\* keys only the override has).
MotorOverride ==
    <<Item("print_settings_id", Scalar("0.20mm Strength @Q2 (Supports)")),
      Item("enable_support", Scalar("1")),
      Item("support_type", Scalar("normal(auto)")),
      Item("support_on_build_plate_only", Scalar("1")),
      Item("support_base_pattern", Scalar("rectilinear"))>>
\* An override that replaces a list by a shorter list, and the override of
\* the spec's example.
AreaOverride ==
    <<Item("b", Scalar("9")),
      Item("printable_area", ListOf(<<"0x0", "200x0">>)),
      Item("filament_colour", ListOf(<<"#000000">>)),
      Item("c", Scalar("7"))>>
\* An override that names a header key.
VersionOverride ==
    <<Item("support_base_pattern", Scalar("honeycomb")),
      Item("version", Scalar("99.0"))>>
Overrides == {NoOverride, MotorOverride, AreaOverride, VersionOverride}

\* Reference files.  _ref_settings.json is a project_settings.config that
\* QIDIStudio exported: a JSON object of setting keys together with the
\* header keys.
RefExported ==
    <<Item("a", Scalar("1")),
      Item("b", Scalar("2")),
      Item("enable_support", Scalar("1")),
      Item("filament_colour", ListOf(<<"#FFFFFF", "#FF0000">>)),
      Item("from", Scalar("User")),
      Item("name", Scalar("exported")),
      Item("printable_area", ListOf(<<"0x0", "245x0", "245x245", "0x245">>)),
      Item("version", Scalar("02.03.00.70"))>>
\* The same keys with the header in front and the exporter's own values.
RefHeaderFirst ==
    <<Item("version", Scalar(QIDISTUDIO_VERSION)),
      Item("name", Scalar("project_settings")),
      Item("from", Scalar("project")),
      Item("support_type", Scalar("none")),
      Item("filament_colour", ListOf(<<"#FFFFFF">>))>>
\* The spec's example baseline, without header keys.
RefExample == <<Item("a", Scalar("1")), Item("b", Scalar("2"))>>
RefEmpty == <<>>
RefFiles == {RefExported, RefHeaderFirst, RefExample, RefEmpty}

\* No export_combined_3mf call has reached its settings.
SetIdle ==
    /\ ref_settings = RefEmpty
    /\ ORCA_SETTINGS_ASAGF = AsagfOverlay
    /\ settings_override = NoOverride
    /\ settings = <<>>
    /\ project_config = <<>>
    /\ sstep = "idle"
    /\ embedded = <<>>

\* main of generate_all.py has not been started.
GenIdle ==
    /\ gstep = "idle"
    /\ part_i = 0
    /\ results = <<>>
    /\ attempted = <<>>
    /\ oversize = <<>>
    /\ summary = <<>>

\* No call has been made before this one.
NoDoc == [made |-> FALSE, resources |-> <<>>, build |-> <<>>]

----------------------------------------------------------------------------
(* Binary STL layout *)

COUNT_OFFSET == 80
COUNT_SIZE == 4
FIRST_RECORD == 84
RECORD_SIZE == 50
RECORD_STRIDE == 50

\* round(x, 6) on a raw coordinate q (quarters of 1e-6): the nearest multiple
\* of 1e-6, a tie going to the even one.  -0.0 and 0.0 are the same key.
Round6(q) ==
    LET f == q \div 4
        r == q % 4
    IN  IF r < 2 THEN f
        ELSE IF r > 2 THEN f + 1
        ELSE IF f % 2 = 0 THEN f ELSE f + 1

\* key = (vx, vy, vz)
RoundedKey(p) == <<Round6(p[1]), Round6(p[2]), Round6(p[3])>>

\* struct.unpack_from(fmt, data, off) needs len(data) - off >= calcsize(fmt);
\* otherwise it raises struct.error.
UnpackFits(buf, off, size) == buf.len - off >= size

\* The three corners unpacked at a record offset (normal and attribute dropped).
RecordAt(buf, off) == buf.recs[((off - FIRST_RECORD) \div RECORD_STRIDE) + 1]

----------------------------------------------------------------------------
(* Input alphabet of the decoder *)

\* Raw corner points.  PtA and PtB differ and round to the same key; PtD
\* rounds on two ties (x: 0.5e-6 -> 0, z: -0.5e-6 -> -0.0 = 0).
PtA == <<3, 0, 0>>
PtB == <<5, 0, 0>>
PtC == <<5, 4, 0>>
PtD == <<2, 0, -2>>

\* Triangle records: distinct corners, a corner shared with other records,
\* corners that coincide after rounding, reversed winding, one point thrice.
Records ==
    { <<PtA, PtC, PtD>>, <<PtD, PtC, PtA>>, <<PtB, PtC, PtD>>,
      <<PtA, PtB, PtC>>, <<PtC, PtC, PtC>>, <<PtD, PtA, PtA>> }

RECURSIVE SeqsUpTo(_, _)
SeqsUpTo(S, n) ==
    IF n = 0 THEN { <<>> }
    ELSE LET shorter == SeqsUpTo(S, n - 1)
         IN  shorter \cup { Append(s, x) : s \in { t \in shorter : Len(t) = n - 1 }, x \in S }

\* Byte lengths that hold exactly k whole records: none to spare, or 49 spare
\* bytes (one short of another record).
LensFor(k) == { FIRST_RECORD + RECORD_STRIDE * k, FIRST_RECORD + RECORD_STRIDE * k + (RECORD_SIZE - 1) }

\* Buffers: too short for the header, or a header with any declared count
\* followed by up to MaxRecords whole records (so the declared count may be
\* below, equal to or above what the bytes hold).
Buffers ==
    { [len |-> n, count |-> 0, recs |-> <<>>] : n \in {0, FIRST_RECORD - 1} }
    \cup
    UNION { { [len |-> n, count |-> c, recs |-> rs] :
                c \in 0..(MaxRecords + 1), n \in LensFor(Len(rs)) } :
            rs \in SeqsUpTo(Records, MaxRecords) }

----------------------------------------------------------------------------
(* _parse_binary_stl, one step at a time *)

NoMap == <<>>

\* DedupCorner without the `key not in vertex_map` test: every corner appended.
DedupCornerNoLookup(vs, vm, key) ==
    LET vm2 == [k \in (DOMAIN vm) \cup {key} |-> IF k = key THEN Len(vs) ELSE vm[k]]
    IN  [vertices |-> Append(vs, key), vertex_map |-> vm2, index |-> vm2[key]]

\* DedupCorner with the append done before the index is taken.
DedupCornerAppendFirst(vs, vm, key) ==
    IF key \in DOMAIN vm
    THEN [vertices |-> vs, vertex_map |-> vm, index |-> vm[key]]
    ELSE LET vs2 == Append(vs, key)
             vm2 == vm @@ (key :> Len(vs2))
         IN  [vertices |-> vs2, vertex_map |-> vm2, index |-> vm2[key]]

\* DedupCorner that puts an unseen key in front of the list, as index 0, and
\* moves every key it already holds up by one.
DedupCornerPrepend(vs, vm, key) ==
    IF key \in DOMAIN vm
    THEN [vertices |-> vs, vertex_map |-> vm, index |-> vm[key]]
    ELSE LET vm2 == [k \in (DOMAIN vm) \cup {key} |-> IF k = key THEN 0 ELSE vm[k] + 1]
         IN  [vertices |-> <<key>> \o vs, vertex_map |-> vm2, index |-> vm2[key]]

\* Lines 198-203: look the key up, append it when unseen, yield its index.
DedupCorner(vs, vm, key) ==
    IF key \in DOMAIN vm
    THEN [vertices |-> vs, vertex_map |-> vm, index |-> vm[key]]
    ELSE LET vm2 == vm @@ (key :> Len(vs))
         IN  [vertices |-> Append(vs, key), vertex_map |-> vm2, index |-> vm2[key]]

\* n_triangles = struct.unpack_from('<I', data, 80)[0], then the empty lists.
ReadCount ==
    /\ UNCHANGED <<pkgVars, first_doc, setVars, genVars>>
    /\ pc = "count"
    /\ IF UnpackFits(data, COUNT_OFFSET, COUNT_SIZE)
       THEN /\ n_triangles' = data.count
            /\ offset' = FIRST_RECORD
            /\ pc' = "loop"
            /\ UNCHANGED raised
       ELSE /\ raised' = "struct.error"
            /\ pc' = "raised"
            /\ UNCHANGED <<n_triangles, offset>>
    /\ UNCHANGED <<data, rec_i, vals, vi, vertices, triangles, vertex_map, tri_indices>>

\* UnpackRecord that stops at a short read and returns what it has.
UnpackRecordTruncating ==
    /\ UNCHANGED <<pkgVars, first_doc, setVars, genVars>>
    /\ pc = "loop"
    /\ rec_i < n_triangles
    /\ IF UnpackFits(data, offset, RECORD_SIZE)
       THEN /\ vals' = RecordAt(data, offset)
            /\ offset' = offset + RECORD_STRIDE
            /\ tri_indices' = <<>>
            /\ vi' = 0
            /\ pc' = "corner"
       ELSE /\ pc' = "done"
            /\ UNCHANGED <<vals, offset, tri_indices, vi>>
    /\ UNCHANGED <<data, n_triangles, rec_i, vertices, triangles, vertex_map, raised>>

\* vals = struct.unpack_from('<12fH', data, offset); offset += 50; tri_indices = []
UnpackRecord ==
    /\ UNCHANGED <<pkgVars, first_doc, setVars, genVars>>
    /\ pc = "loop"
    /\ rec_i < n_triangles
    /\ IF UnpackFits(data, offset, RECORD_SIZE)
       THEN /\ vals' = RecordAt(data, offset)
            /\ offset' = offset + RECORD_STRIDE
            /\ tri_indices' = <<>>
            /\ vi' = 0
            /\ pc' = "corner"
            /\ UNCHANGED raised
       ELSE /\ raised' = "struct.error"
            /\ pc' = "raised"
            /\ UNCHANGED <<vals, offset, tri_indices, vi>>
    /\ UNCHANGED <<data, n_triangles, rec_i, vertices, triangles, vertex_map>>

\* One pass of `for vi in range(3)`.
Corner ==
    /\ UNCHANGED <<pkgVars, first_doc, setVars, genVars>>
    /\ pc = "corner"
    /\ vi < 3
    /\ LET c == DedupCorner(vertices, vertex_map, RoundedKey(vals[vi + 1]))
       IN  /\ vertices' = c.vertices
           /\ vertex_map' = c.vertex_map
           /\ tri_indices' = Append(tri_indices, c.index)
    /\ vi' = vi + 1
    /\ UNCHANGED <<data, pc, n_triangles, offset, rec_i, vals, triangles, raised>>

\* AppendTriangle with the corner order reversed.
AppendTriangleReversed ==
    /\ UNCHANGED <<pkgVars, first_doc, setVars, genVars>>
    /\ pc = "corner"
    /\ vi = 3
    /\ triangles' = Append(triangles, <<tri_indices[3], tri_indices[2], tri_indices[1]>>)
    /\ rec_i' = rec_i + 1
    /\ pc' = "loop"
    /\ UNCHANGED <<data, n_triangles, offset, vals, vi, vertices, vertex_map, tri_indices, raised>>

\* triangles.append(tuple(tri_indices))
AppendTriangle ==
    /\ UNCHANGED <<pkgVars, first_doc, setVars, genVars>>
    /\ pc = "corner"
    /\ vi = 3
    /\ triangles' = Append(triangles, tri_indices)
    /\ rec_i' = rec_i + 1
    /\ pc' = "loop"
    /\ UNCHANGED <<data, n_triangles, offset, vals, vi, vertices, vertex_map, tri_indices, raised>>

\* return vertices, triangles
ReturnMesh ==
    /\ UNCHANGED <<pkgVars, first_doc, setVars, genVars>>
    /\ pc = "loop"
    /\ rec_i = n_triangles
    /\ pc' = "done"
    /\ UNCHANGED <<data, n_triangles, offset, rec_i, vals, vi, vertices, triangles,
                   vertex_map, tri_indices, raised>>

\* No packaging call is in progress.
PkgIdle ==
    /\ fn = "none"
    /\ step = "idle"
    /\ entries = <<>>
    /\ spacing = 0
    /\ profile = "none"
    /\ idx = 0
    /\ cursor_x = 0
    /\ resources = <<>>
    /\ build = <<>>
    /\ object_ids = <<>>
    /\ placements = <<>>
    /\ total_width = 0
    /\ warned = FALSE
    /\ dest0 = [exists |-> FALSE, complete |-> FALSE, gen |-> "none", names |-> <<>>, formats |-> <<>>,
     settings |-> "none", plate |-> [objects |-> <<>>, plate |-> <<>>]]
    /\ dest = dest0
    /\ exc = "none"

DecodeInit ==
    /\ PkgIdle
    /\ SetIdle
    /\ GenIdle
    /\ first_doc = NoDoc
    /\ data \in Buffers
    /\ pc = "count"
    /\ n_triangles = 0
    /\ offset = 0
    /\ rec_i = 0
    /\ vals = <<>>
    /\ vi = 0
    /\ vertices = <<>>
    /\ triangles = <<>>
    /\ vertex_map = NoMap
    /\ tri_indices = <<>>
    /\ raised = "none"

DecodeNext ==
    \/ ReadCount
    \/ UnpackRecord
    \/ Corner
    \/ AppendTriangle
    \/ ReturnMesh

SpecDecode == DecodeInit /\ [][DecodeNext]_vars

----------------------------------------------------------------------------
(* _parse_binary_stl as a function of the buffer: the same steps, run to the
   end.  The packaging paths call it through shape_to_triangles. *)

RECURSIVE ParseLoop(_, _, _, _, _, _, _)
ParseLoop(buf, n, i, off, vs, ts, vm) ==
    IF i = n THEN [raised |-> "none", vertices |-> vs, triangles |-> ts]
    ELSE IF ~UnpackFits(buf, off, RECORD_SIZE)
    THEN [raised |-> "struct.error", vertices |-> <<>>, triangles |-> <<>>]
    ELSE LET rec == RecordAt(buf, off)
             c1 == DedupCorner(vs, vm, RoundedKey(rec[1]))
             c2 == DedupCorner(c1.vertices, c1.vertex_map, RoundedKey(rec[2]))
             c3 == DedupCorner(c2.vertices, c2.vertex_map, RoundedKey(rec[3]))
         IN  ParseLoop(buf, n, i + 1, off + RECORD_STRIDE, c3.vertices,
                       Append(ts, <<c1.index, c2.index, c3.index>>), c3.vertex_map)

ParseBinarySTL(buf) ==
    IF ~UnpackFits(buf, COUNT_OFFSET, COUNT_SIZE)
    THEN [raised |-> "struct.error", vertices |-> <<>>, triangles |-> <<>>]
    ELSE ParseLoop(buf, buf.count, 0, FIRST_RECORD, <<>>, <<>>, NoMap)

\* The stepwise decoder and the function agree on every finished call.
StepwiseAgrees ==
    /\ pc = "done" => ParseBinarySTL(data) = [raised |-> "none", vertices |-> vertices, triangles |-> triangles]
    /\ pc = "raised" => ParseBinarySTL(data).raised = raised

----------------------------------------------------------------------------
(* Inputs of a packaging call *)

\* n millimetres in plate units (0.00001 mm).
Mm(n) == n * 100000

\* f"{v:.4f}": the nearest multiple of 0.0001 mm, printed with 4 decimals.
Fmt4(v) ==
    LET f == v \div 10
        r == v % 10
    IN  10 * (IF r < 5 THEN f
              ELSE IF r > 5 THEN f + 1
              ELSE IF f % 2 = 0 THEN f ELSE f + 1)

\* STL files the tessellator leaves for shape_to_triangles to read.
StlOne == [len |-> FIRST_RECORD + RECORD_STRIDE, count |-> 1,
           recs |-> << <<PtA, PtC, PtD>> >>]
StlTwo == [len |-> FIRST_RECORD + 2 * RECORD_STRIDE, count |-> 2,
           recs |-> << <<PtA, PtC, PtD>>, <<PtB, PtD, PtC>> >>]
StlEmpty == [len |-> FIRST_RECORD, count |-> 0, recs |-> <<>>]
StlTruncated == [len |-> FIRST_RECORD + 2 * RECORD_STRIDE - 1, count |-> 2,
                 recs |-> << <<PtA, PtC, PtD>> >>]

Box(x, y, z, xl) == [xmin |-> x, ymin |-> y, zmin |-> z, xlen |-> xl]

\* Shapes: a bounding box (shape.val().BoundingBox()) and the STL the shape
\* tessellates to.  Minimum bounds are negative, zero and positive, on and
\* off the 0.0001 mm grid; x-extents are 10, 20, 30, 240 and 0 mm.
ShBracket == [bb |-> Box(-500003, Mm(-2), Mm(-1), Mm(10)), stl |-> StlOne]
ShPlate == [bb |-> Box(0, 0, 0, Mm(20)), stl |-> StlTwo]
ShArm == [bb |-> Box(Mm(7) + 3, Mm(3), -450000, Mm(30)), stl |-> StlOne]
ShRail == [bb |-> Box(Mm(-120), Mm(-10), 0, Mm(240)), stl |-> StlTwo]
ShEmpty == [bb |-> Box(Mm(1), Mm(1), Mm(1), 0), stl |-> StlEmpty]
ShBroken == [bb |-> Box(Mm(-3), 0, Mm(2), Mm(20)), stl |-> StlTruncated]

Shapes == {ShBracket, ShPlate, ShArm, ShRail, ShEmpty, ShBroken}
BodyShapes == {ShBracket, ShEmpty, ShBroken}

\* Material tags a caller passes to create_3mf; "purple" is not in COLORS.
Tags == {"red", "black", "asagf", "purple"}

Spacings == {Mm(-5), 0, Mm(5)}
Profiles == {"petg", "asagf", "pla"}

\* shape_entries / step_entries: (shape, part_name); the name is only printed
\* and copied into the per-object config.
PartEntries == { [tag |-> "part", shape |-> sh] : sh \in Shapes }
\* color_bodies: (color_name, shape)
ColorBodies == { [tag |-> t, shape |-> sh] : t \in Tags, sh \in BodyShapes }

----------------------------------------------------------------------------
(* Palette of create_3mf *)

\* COLORS in insertion order; enumerate() gives the material index.
PaletteOrder == <<"red", "yellow", "black", "clear", "asagf">>
PaletteTags == { PaletteOrder[i] : i \in 1..Len(PaletteOrder) }

\* color_to_matidx[cname] = idx
ColorToMatidx == [t \in PaletteTags |-> (CHOOSE i \in 1..Len(PaletteOrder) : PaletteOrder[i] = t) - 1]

\* MatIdx that counts the palette from 1.
MatIdxOneBased(tag) == IF tag \in DOMAIN ColorToMatidx THEN ColorToMatidx[tag] + 1 ELSE 0

\* mat_idx = color_to_matidx.get(color_name, 0)
MatIdx(tag) == IF tag \in DOMAIN ColorToMatidx THEN ColorToMatidx[tag] ELSE 0

\* FILAMENT_SLOTS
FILAMENT_SLOTS ==
    ("red" :> 1) @@ ("yellow" :> 2) @@ ("black" :> 3) @@ ("clear" :> 4) @@ ("asagf" :> 0)

\* slot = FILAMENT_SLOTS.get(color_name, 0)
FilamentSlot(tag) == IF tag \in DOMAIN FILAMENT_SLOTS THEN FILAMENT_SLOTS[tag] ELSE 0

\* BuildPlateConfig that writes the slot itself as the extruder.
BuildPlateConfigNoOffset(oids) ==
    [objects |-> [i \in 1..Len(oids) |->
                    [id |-> oids[i].id, extruder |-> FilamentSlot(oids[i].name),
                     name |-> oids[i].name]],
     plate |-> [i \in 1..Len(oids) |-> oids[i].id]]

\* _build_plate_config(object_ids, settings): one <object> per object with
\* extruder slot + 1 and its name, then one object_id line per object under
\* <plate>.
BuildPlateConfig(oids) ==
    [objects |-> [i \in 1..Len(oids) |->
                    [id |-> oids[i].id, extruder |-> FilamentSlot(oids[i].name) + 1,
                     name |-> oids[i].name]],
     plate |-> [i \in 1..Len(oids) |-> oids[i].id]]

\* The per-object config of the side-by-side paths: extruder "1" for every
\* object.
SingleExtruderConfig(oids) ==
    [objects |-> [i \in 1..Len(oids) |->
                    [id |-> oids[i].id, extruder |-> 1, name |-> oids[i].name]],
     plate |-> [i \in 1..Len(oids) |-> oids[i].id]]

\* OrcaSettings that takes "petg" for PETG and anything else for ASA-GF.
OrcaSettingsPetgByName(selector) ==
    IF selector = "petg" THEN "ORCA_SETTINGS_PETG" ELSE "ORCA_SETTINGS_ASAGF"

\* if profile == "asagf": orca_settings = ORCA_SETTINGS_ASAGF
\* else: orca_settings = ORCA_SETTINGS_PETG
OrcaSettings(selector) ==
    IF selector = "asagf" THEN "ORCA_SETTINGS_ASAGF" ELSE "ORCA_SETTINGS_PETG"

----------------------------------------------------------------------------
(* The destination path *)

SideBySide == {"steps_to_combined_3mf", "export_combined_3mf"}

\* EntryNames that writes the settings entry a second time in place of the
\* per-object config.
EntryNamesSettingsTwice(f) ==
    IF f = "export_combined_3mf"
    THEN <<"[Content_Types].xml", "_rels/.rels", "3D/3dmodel.model",
           "Metadata/project_settings.config", "Metadata/project_settings.config",
           "Metadata/slice_info.config", "Metadata/cut_information.xml",
           "Metadata/filament_sequence.json">>
    ELSE <<"[Content_Types].xml", "_rels/.rels", "3D/3dmodel.model",
           "Metadata/project_settings.config", "Metadata/project_settings.config">>

\* Archive entries in the order of the writestr calls.
EntryNames(f) ==
    IF f = "export_combined_3mf"
    THEN <<"[Content_Types].xml", "_rels/.rels", "3D/3dmodel.model",
           "Metadata/project_settings.config", "Metadata/model_settings.config",
           "Metadata/slice_info.config", "Metadata/cut_information.xml",
           "Metadata/filament_sequence.json">>
    ELSE <<"[Content_Types].xml", "_rels/.rels", "3D/3dmodel.model",
           "Metadata/project_settings.config", "Metadata/plate_1.config">>

\* What each writestr call is given, entry by entry: an XML text, the
\* "key = value" lines joined by newlines, or a json.dumps text.
EntryFormats(f) ==
    IF f = "export_combined_3mf"
    THEN <<"xml", "xml", "xml", "json", "xml", "xml", "xml", "json">>
    ELSE <<"xml", "xml", "xml", "lines", "xml">>

\* The entry that carries the slicer settings, and the entries that carry
\* the per-object config (plate_1.config for Orca, model_settings.config for
\* QIDI).
SETTINGS_ENTRY == "Metadata/project_settings.config"
PlateEntries == {"Metadata/plate_1.config", "Metadata/model_settings.config"}

\* The dict whose items the settings entry is written from: create_3mf's
\* orca_settings, steps_to_combined_3mf's ORCA_SETTINGS_ASAGF,
\* export_combined_3mf's project_config.
SettingsOf(f, selector) ==
    IF f = "create_3mf" THEN OrcaSettings(selector)
    ELSE IF f = "steps_to_combined_3mf" THEN "ORCA_SETTINGS_ASAGF"
    ELSE "project_config"

\* The per-object config a function writes for its object list.
PlateConfigOf(f, oids) ==
    IF f = "create_3mf" THEN BuildPlateConfig(oids) ELSE SingleExtruderConfig(oids)

NoPlate == [objects |-> <<>>, plate |-> <<>>]

Absent == [exists |-> FALSE, complete |-> FALSE, gen |-> "none", names |-> <<>>, formats |-> <<>>,
     settings |-> "none", plate |-> [objects |-> <<>>, plate |-> <<>>]]
\* A complete archive an earlier call left at the same path.
Earlier(f) == [exists |-> TRUE, complete |-> TRUE, gen |-> "earlier",
               names |-> EntryNames(f), formats |-> EntryFormats(f),
               settings |-> "earlier", plate |-> NoPlate]

----------------------------------------------------------------------------
(* One packaging call *)

\* shape_to_triangles(shape): the tessellator's STL, parsed.
ShapeToTriangles(shape) == ParseBinarySTL(shape.stl)

\* PlaceAt that advances the cursor by the extent alone.
PlaceAtNoGap(cur, bb, gap) ==
    LET ox == cur - bb.xmin
        oy == 0 - bb.ymin
        oz == 0 - bb.zmin
    IN  [start |-> cur, bb |-> bb,
         offset |-> <<ox, oy, oz>>,
         transform |-> <<1, 0, 0, 0, 1, 0, 0, 0, 1, Fmt4(ox), Fmt4(oy), Fmt4(oz)>>,
         next |-> cur + bb.xlen]

\* PlaceAt with the y offset's sign lost (offset_y = bb.ymin).
PlaceAtYSign(cur, bb, gap) ==
    LET ox == cur - bb.xmin
        oy == bb.ymin
        oz == 0 - bb.zmin
    IN  [start |-> cur, bb |-> bb,
         offset |-> <<ox, oy, oz>>,
         transform |-> <<1, 0, 0, 0, 1, 0, 0, 0, 1, Fmt4(ox), Fmt4(oy), Fmt4(oz)>>,
         next |-> cur + (bb.xlen + gap)]

\* PlaceAt that writes the translation in front of the matrix.
PlaceAtTranslationFirst(cur, bb, gap) ==
    LET ox == cur - bb.xmin
        oy == 0 - bb.ymin
        oz == 0 - bb.zmin
    IN  [start |-> cur, bb |-> bb,
         offset |-> <<ox, oy, oz>>,
         transform |-> <<Fmt4(ox), Fmt4(oy), Fmt4(oz), 1, 0, 0, 0, 1, 0, 0, 0, 1>>,
         next |-> cur + (bb.xlen + gap)]

\* Side-by-side placement of one box at the cursor (offset_x, offset_y,
\* offset_z, the transform text, and the cursor after it).
PlaceAt(cur, bb, gap) ==
    LET ox == cur - bb.xmin
        oy == 0 - bb.ymin
        oz == 0 - bb.zmin
    IN  [start |-> cur, bb |-> bb,
         offset |-> <<ox, oy, oz>>,
         transform |-> <<1, 0, 0, 0, 1, 0, 0, 0, 1, Fmt4(ox), Fmt4(oy), Fmt4(oz)>>,
         next |-> cur + (bb.xlen + gap)]

\* TotalWidth that keeps the trailing gap.
TotalWidthWithGap(cur, gap) == cur

\* total_width = cursor_x - spacing
TotalWidth(cur, gap) == cur - gap

\* Plate width the combined layout is compared with.
PLATE_MAX_MM == 270

\* AddColorBody that numbers the objects from 1, the id of the material table.
AddColorBodyFromOne ==
    /\ UNCHANGED <<decVars, first_doc, setVars, genVars>>
    /\ fn = "create_3mf"
    /\ step = "loop"
    /\ idx < Len(entries)
    /\ LET e == entries[idx + 1]
           obj_id == idx + 1
           mesh == ShapeToTriangles(e.shape)
       IN  /\ object_ids' = Append(object_ids, [id |-> obj_id, name |-> e.tag])
           /\ IF mesh.raised # "none"
              THEN /\ exc' = mesh.raised
                   /\ step' = "raised"
                   /\ UNCHANGED <<idx, resources>>
              ELSE /\ resources' = Append(resources,
                          [id |-> obj_id, pid |-> 1, pindex |-> MatIdx(e.tag),
                           vertices |-> mesh.vertices, triangles |-> mesh.triangles])
                   /\ idx' = idx + 1
                   /\ UNCHANGED <<exc, step>>
    /\ UNCHANGED <<fn, entries, spacing, profile, cursor_x, build, placements,
                   total_width, warned, dest0, dest>>

\* AddColorBody that leaves the last triangle of each mesh out.
AddColorBodyDroppingLast ==
    /\ UNCHANGED <<decVars, first_doc, setVars, genVars>>
    /\ fn = "create_3mf"
    /\ step = "loop"
    /\ idx < Len(entries)
    /\ LET e == entries[idx + 1]
           obj_id == idx + 2
           mesh == ShapeToTriangles(e.shape)
       IN  /\ object_ids' = Append(object_ids, [id |-> obj_id, name |-> e.tag])
           /\ IF mesh.raised # "none"
              THEN /\ exc' = mesh.raised
                   /\ step' = "raised"
                   /\ UNCHANGED <<idx, resources>>
              ELSE /\ resources' = Append(resources,
                          [id |-> obj_id, pid |-> 1, pindex |-> MatIdx(e.tag),
                           vertices |-> mesh.vertices,
                           triangles |-> SubSeq(mesh.triangles, 1, Len(mesh.triangles) - 1)])
                   /\ idx' = idx + 1
                   /\ UNCHANGED <<exc, step>>
    /\ UNCHANGED <<fn, entries, spacing, profile, cursor_x, build, placements,
                   total_width, warned, dest0, dest>>

\* One pass of create_3mf's object loop (lines 262-285).
AddColorBody ==
    /\ UNCHANGED <<decVars, first_doc, setVars, genVars>>
    /\ fn = "create_3mf"
    /\ step = "loop"
    /\ idx < Len(entries)
    /\ LET e == entries[idx + 1]
           obj_id == idx + 2
           mesh == ShapeToTriangles(e.shape)
       IN  /\ object_ids' = Append(object_ids, [id |-> obj_id, name |-> e.tag])
           /\ IF mesh.raised # "none"
              THEN /\ exc' = mesh.raised
                   /\ step' = "raised"
                   /\ UNCHANGED <<idx, resources>>
              ELSE /\ resources' = Append(resources,
                          [id |-> obj_id, pid |-> 1, pindex |-> MatIdx(e.tag),
                           vertices |-> mesh.vertices, triangles |-> mesh.triangles])
                   /\ idx' = idx + 1
                   /\ UNCHANGED <<exc, step>>
    /\ UNCHANGED <<fn, entries, spacing, profile, cursor_x, build, placements,
                   total_width, warned, dest0, dest>>

\* BuildItems that references the objects by their position in the list.
BuildItemsByPosition ==
    /\ UNCHANGED <<decVars, first_doc, setVars, genVars>>
    /\ fn = "create_3mf"
    /\ step = "loop"
    /\ idx = Len(entries)
    /\ build' = [i \in 1..Len(object_ids) |-> [objectid |-> i, transform |-> <<>>]]
    /\ step' = "open"
    /\ UNCHANGED <<fn, entries, spacing, profile, idx, cursor_x, resources, object_ids,
                   placements, total_width, warned, dest0, dest, exc>>

\* create_3mf's build section (lines 289-291): one item per object id.
BuildItems ==
    /\ UNCHANGED <<decVars, first_doc, setVars, genVars>>
    /\ fn = "create_3mf"
    /\ step = "loop"
    /\ idx = Len(entries)
    /\ build' = [i \in 1..Len(object_ids) |-> [objectid |-> object_ids[i].id, transform |-> <<>>]]
    /\ step' = "open"
    /\ UNCHANGED <<fn, entries, spacing, profile, idx, cursor_x, resources, object_ids,
                   placements, total_width, warned, dest0, dest, exc>>

\* PlaceObject that skips an object whose mesh cannot be decoded and goes on
\* with the next one.
PlaceObjectSkipping ==
    /\ UNCHANGED <<decVars, first_doc, setVars, genVars>>
    /\ fn \in SideBySide
    /\ step = "loop"
    /\ idx < Len(entries)
    /\ LET e == entries[idx + 1]
           oid == idx + 1
           mesh == ShapeToTriangles(e.shape)
           pl == PlaceAt(cursor_x, e.shape.bb, spacing)
       IN  IF mesh.raised # "none"
           THEN /\ idx' = idx + 1
                /\ UNCHANGED <<exc, step, resources, build, object_ids, placements, cursor_x>>
           ELSE /\ resources' = Append(resources,
                       [id |-> oid, pid |-> 0, pindex |-> 0,
                        vertices |-> mesh.vertices, triangles |-> mesh.triangles])
                /\ build' = Append(build, [objectid |-> oid, transform |-> pl.transform])
                /\ object_ids' = Append(object_ids, [id |-> oid, name |-> e.tag])
                /\ placements' = Append(placements, [start |-> pl.start, bb |-> pl.bb, offset |-> pl.offset])
                /\ cursor_x' = pl.next
                /\ idx' = idx + 1
                /\ UNCHANGED <<exc, step>>
    /\ UNCHANGED <<fn, entries, spacing, profile, total_width, warned, dest0, dest>>

\* PlaceObject whose decoder goes on numbering where the object before it
\* stopped.
PlaceObjectSharedMap ==
    /\ UNCHANGED <<decVars, first_doc, setVars, genVars>>
    /\ fn \in SideBySide
    /\ step = "loop"
    /\ idx < Len(entries)
    /\ LET e == entries[idx + 1]
           oid == idx + 1
           mesh == ShapeToTriangles(e.shape)
           pl == PlaceAt(cursor_x, e.shape.bb, spacing)
           seen == IF idx = 0 THEN 0 ELSE Len(resources[idx].vertices)
       IN  IF mesh.raised # "none"
           THEN /\ exc' = mesh.raised
                /\ step' = "raised"
                /\ UNCHANGED <<idx, resources, build, object_ids, placements, cursor_x>>
           ELSE /\ resources' = Append(resources,
                       [id |-> oid, pid |-> 0, pindex |-> 0,
                        vertices |-> mesh.vertices,
                        triangles |-> [r \in 1..Len(mesh.triangles) |->
                                          [j \in 1..3 |-> mesh.triangles[r][j] + seen]]])
                /\ build' = Append(build, [objectid |-> oid, transform |-> pl.transform])
                /\ object_ids' = Append(object_ids, [id |-> oid, name |-> e.tag])
                /\ placements' = Append(placements, [start |-> pl.start, bb |-> pl.bb, offset |-> pl.offset])
                /\ cursor_x' = pl.next
                /\ idx' = idx + 1
                /\ UNCHANGED <<exc, step>>
    /\ UNCHANGED <<fn, entries, spacing, profile, total_width, warned, dest0, dest>>

\* One pass of the side-by-side object loop (convert_step_to_3mf.py 146-191,
\* modify_axis_models.py 640-673).
PlaceObject ==
    /\ UNCHANGED <<decVars, first_doc, setVars, genVars>>
    /\ fn \in SideBySide
    /\ step = "loop"
    /\ idx < Len(entries)
    /\ LET e == entries[idx + 1]
           oid == idx + 1
           mesh == ShapeToTriangles(e.shape)
           pl == PlaceAt(cursor_x, e.shape.bb, spacing)
       IN  IF mesh.raised # "none"
           THEN /\ exc' = mesh.raised
                /\ step' = "raised"
                /\ UNCHANGED <<idx, resources, build, object_ids, placements, cursor_x>>
           ELSE /\ resources' = Append(resources,
                       [id |-> oid, pid |-> 0, pindex |-> 0,
                        vertices |-> mesh.vertices, triangles |-> mesh.triangles])
                /\ build' = Append(build, [objectid |-> oid, transform |-> pl.transform])
                /\ object_ids' = Append(object_ids, [id |-> oid, name |-> e.tag])
                /\ placements' = Append(placements, [start |-> pl.start, bb |-> pl.bb, offset |-> pl.offset])
                /\ cursor_x' = pl.next
                /\ idx' = idx + 1
                /\ UNCHANGED <<exc, step>>
    /\ UNCHANGED <<fn, entries, spacing, profile, total_width, warned, dest0, dest>>

\* CheckWidth that raises when the layout is wider than the plate.
CheckWidthAborting ==
    /\ UNCHANGED <<decVars, first_doc, setVars, genVars>>
    /\ fn \in SideBySide
    /\ step = "loop"
    /\ idx = Len(entries)
    /\ total_width' = TotalWidth(cursor_x, spacing)
    /\ warned' = (fn = "steps_to_combined_3mf" /\ total_width' > Mm(PLATE_MAX_MM))
    /\ IF total_width' > Mm(PLATE_MAX_MM)
       THEN exc' = "PlateOverflow" /\ step' = "raised"
       ELSE exc' = exc /\ step' = "open"
    /\ UNCHANGED <<fn, entries, spacing, profile, idx, cursor_x, resources, build,
                   object_ids, placements, dest0, dest>>

\* After the loop: the combined width and, in steps_to_combined_3mf only,
\* the WARNING line when it exceeds the plate.
CheckWidth ==
    /\ UNCHANGED <<decVars, first_doc, setVars, genVars>>
    /\ fn \in SideBySide
    /\ step = "loop"
    /\ idx = Len(entries)
    /\ total_width' = TotalWidth(cursor_x, spacing)
    /\ warned' = (fn = "steps_to_combined_3mf" /\ total_width' > Mm(PLATE_MAX_MM))
    /\ step' = "open"
    /\ UNCHANGED <<fn, entries, spacing, profile, idx, cursor_x, resources, build,
                   object_ids, placements, dest0, dest, exc>>

\* zipfile.ZipFile(filepath, 'w', ...): the file at the destination path is
\* created or truncated.
OpenArchive ==
    /\ UNCHANGED <<decVars, first_doc, setVars, genVars>>
    /\ step = "open"
    /\ dest' = [exists |-> TRUE, complete |-> FALSE, gen |-> "this", names |-> <<>>, formats |-> <<>>,
                settings |-> "none", plate |-> NoPlate]
    /\ step' = "write"
    /\ UNCHANGED <<fn, entries, spacing, profile, idx, cursor_x, resources, build,
                   object_ids, placements, total_width, warned, dest0, exc>>

\* The next zf.writestr(name, ...).
WriteEntry ==
    /\ UNCHANGED <<decVars, first_doc, setVars, genVars>>
    /\ step = "write"
    /\ Len(dest.names) < Len(EntryNames(fn))
    /\ dest' = [dest EXCEPT !.names = Append(@, EntryNames(fn)[Len(@) + 1]),
                            !.formats = Append(@, EntryFormats(fn)[Len(@) + 1]),
                            !.settings = IF EntryNames(fn)[Len(dest.names) + 1] = SETTINGS_ENTRY
                                         THEN SettingsOf(fn, profile) ELSE @,
                            !.plate = IF EntryNames(fn)[Len(dest.names) + 1] \in PlateEntries
                                      THEN PlateConfigOf(fn, object_ids) ELSE @]
    /\ UNCHANGED <<fn, step, entries, spacing, profile, idx, cursor_x, resources, build,
                   object_ids, placements, total_width, warned, dest0, exc>>

\* Leaving the `with` block normally: the central directory is written and
\* the call returns.
CloseArchive ==
    /\ UNCHANGED <<decVars, first_doc, setVars, genVars>>
    /\ step = "write"
    /\ Len(dest.names) = Len(EntryNames(fn))
    /\ dest' = [dest EXCEPT !.complete = TRUE]
    /\ step' = "done"
    /\ UNCHANGED <<fn, entries, spacing, profile, idx, cursor_x, resources, build,
                   object_ids, placements, total_width, warned, dest0, exc>>

\* The file system fails the open or a write (OSError).  A failed open leaves
\* the path as it was; a failed write leaves the `with` block by the
\* exception, and the file stays at the destination with the entries written
\* so far.
WriteFails ==
    /\ UNCHANGED <<decVars, first_doc, setVars, genVars>>
    /\ \/ step = "open"
       \/ step = "write" /\ Len(dest.names) < Len(EntryNames(fn))
    /\ exc' = "OSError"
    /\ step' = "raised"
    /\ UNCHANGED <<fn, entries, spacing, profile, idx, cursor_x, resources, build,
                   object_ids, placements, total_width, warned, dest0, dest>>

\* No decoder call is being stepped.
DecIdle ==
    /\ data = StlEmpty
    /\ pc = "idle"
    /\ n_triangles = 0
    /\ offset = 0
    /\ rec_i = 0
    /\ vals = <<>>
    /\ vi = 0
    /\ vertices = <<>>
    /\ triangles = <<>>
    /\ vertex_map = NoMap
    /\ tri_indices = <<>>
    /\ raised = "none"

PkgInit ==
    /\ DecIdle
    /\ SetIdle
    /\ GenIdle
    /\ first_doc = NoDoc
    /\ fn \in {"create_3mf"} \cup SideBySide
    /\ entries \in (IF fn = "create_3mf" THEN SeqsUpTo(ColorBodies, MaxBodies)
                    ELSE SeqsUpTo(PartEntries, MaxObjects))
    /\ spacing \in (IF fn = "create_3mf" THEN {0} ELSE Spacings)
    /\ profile \in (IF fn = "create_3mf" THEN Profiles ELSE {"asagf"})
    /\ step = "loop"
    /\ idx = 0
    /\ cursor_x = 0
    /\ resources = <<>>
    /\ build = <<>>
    /\ object_ids = <<>>
    /\ placements = <<>>
    /\ total_width = 0
    /\ warned = FALSE
    /\ dest0 \in {Absent, Earlier(fn)}
    /\ dest = dest0
    /\ exc = "none"

PkgNext ==
    \/ AddColorBody
    \/ BuildItems
    \/ PlaceObject
    \/ CheckWidth
    \/ OpenArchive
    \/ WriteEntry
    \/ CloseArchive
    \/ WriteFails

Spec == PkgInit /\ [][PkgNext]_vars

----------------------------------------------------------------------------
(* The same create_3mf call made a second time *)

\* CallAgain whose object lists live on from the first call.
CallAgainKeepingObjects ==
    /\ UNCHANGED <<decVars, setVars, genVars>>
    /\ fn = "create_3mf"
    /\ ~first_doc.made
    /\ step = "done" \/ (step = "raised" /\ exc = "OSError")
    /\ first_doc' = [made |-> TRUE, resources |-> resources, build |-> build]
    /\ step' = "loop"
    /\ idx' = 0
    /\ exc' = "none"
    /\ dest' = (IF dest.exists THEN [dest EXCEPT !.gen = "earlier"] ELSE dest)
    /\ dest0' = dest'
    /\ UNCHANGED <<fn, entries, spacing, profile, cursor_x, resources, build, object_ids,
                   placements, total_width, warned>>

\* create_3mf is entered again with the arguments of the call that has just
\* serialised its model document: the element tree, color_to_matidx and
\* object_ids are created anew (lines 238-261); the destination path holds
\* what the first call left there.
CallAgain ==
    /\ UNCHANGED <<decVars, setVars, genVars>>
    /\ fn = "create_3mf"
    /\ ~first_doc.made
    /\ step = "done" \/ (step = "raised" /\ exc = "OSError")
    /\ first_doc' = [made |-> TRUE, resources |-> resources, build |-> build]
    /\ step' = "loop"
    /\ idx' = 0
    /\ resources' = <<>>
    /\ build' = <<>>
    /\ object_ids' = <<>>
    /\ exc' = "none"
    /\ dest' = (IF dest.exists THEN [dest EXCEPT !.gen = "earlier"] ELSE dest)
    /\ dest0' = dest'
    /\ UNCHANGED <<fn, entries, spacing, profile, cursor_x, placements, total_width, warned>>

RepeatInit ==
    /\ PkgInit
    /\ fn = "create_3mf"
    /\ dest0 = Absent

RepeatNext ==
    \/ AddColorBody
    \/ BuildItems
    \/ OpenArchive
    \/ WriteEntry
    \/ CloseArchive
    \/ WriteFails
    \/ CallAgain

SpecRepeat == RepeatInit /\ [][RepeatNext]_vars

----------------------------------------------------------------------------
(* The settings of export_combined_3mf, over the calls of one run *)

\* for hdr in ("version", "name", "from"): settings.pop(hdr, None)
PopHeaders(d) == DictPop(DictPop(DictPop(d, HeaderKeys[1]), HeaderKeys[2]), HeaderKeys[3])

\* The literal project_config starts from.
HeaderConfig ==
    <<Item("version", Scalar(QIDISTUDIO_VERSION)),
      Item("name", Scalar("project_settings")),
      Item("from", Scalar("project"))>>

\* A call reaches its settings: json.load gives a new dict, the header keys
\* are popped from it (lines 714-719).
LoadReference ==
    /\ UNCHANGED <<decVars, pkgVars, first_doc, genVars>>
    /\ sstep \in {"idle", "built"}
    /\ Len(embedded) < MaxCalls
    /\ settings_override' \in Overrides
    /\ settings' = PopHeaders(ref_settings)
    /\ project_config' = <<>>
    /\ sstep' = "loaded"
    /\ UNCHANGED <<ref_settings, ORCA_SETTINGS_ASAGF, embedded>>

\* OverlaySettings that updates the module's dict with the override and
\* then the call's dict with the module's.
OverlaySettingsInPlace ==
    /\ UNCHANGED <<decVars, pkgVars, first_doc, genVars>>
    /\ sstep = "loaded"
    /\ ORCA_SETTINGS_ASAGF' = DictUpdate(ORCA_SETTINGS_ASAGF, settings_override)
    /\ settings' = DictUpdate(settings, ORCA_SETTINGS_ASAGF')
    /\ sstep' = "merged"
    /\ UNCHANGED <<ref_settings, settings_override, project_config, embedded>>

\* settings.update(ORCA_SETTINGS_ASAGF), then the override if there is one
\* (lines 721-723).
OverlaySettings ==
    /\ UNCHANGED <<decVars, pkgVars, first_doc, genVars>>
    /\ sstep = "loaded"
    /\ settings' = (LET overlaid == DictUpdate(settings, ORCA_SETTINGS_ASAGF)
                    IN  IF settings_override # NoOverride
                        THEN DictUpdate(overlaid, settings_override)
                        ELSE overlaid)
    /\ sstep' = "merged"
    /\ UNCHANGED <<ref_settings, ORCA_SETTINGS_ASAGF, settings_override, project_config, embedded>>

\* project_config = {header}; project_config.update(settings); json.dumps
\* writes the dict in its order (lines 728-734).
BuildProjectConfig ==
    /\ UNCHANGED <<decVars, pkgVars, first_doc, genVars>>
    /\ sstep = "merged"
    /\ project_config' = DictUpdate(HeaderConfig, settings)
    /\ embedded' = Append(embedded, [override |-> settings_override, config |-> project_config'])
    /\ sstep' = "built"
    /\ UNCHANGED <<ref_settings, ORCA_SETTINGS_ASAGF, settings_override, settings>>

SetInit ==
    /\ DecIdle
    /\ PkgIdle
    /\ GenIdle
    /\ first_doc = NoDoc
    /\ ref_settings \in RefFiles
    /\ ORCA_SETTINGS_ASAGF = AsagfOverlay
    /\ settings_override = NoOverride
    /\ settings = <<>>
    /\ project_config = <<>>
    /\ sstep = "idle"
    /\ embedded = <<>>

SetNext ==
    \/ LoadReference
    \/ OverlaySettings
    \/ BuildProjectConfig

SpecSettings == SetInit /\ [][SetNext]_vars

----------------------------------------------------------------------------
(* generate_all.main: the part loop and the summary *)

\* parts
parts ==
    <<[name |-> "01 - Base Tray (6 compartments)", module_name |-> "01_base_tray",
       func_name |-> "create_base_tray"],
      [name |-> "02 - Upper Tray (4 compartments)", module_name |-> "02_upper_tray",
       func_name |-> "create_upper_tray"],
      [name |-> "03 - Lid with Dragon Relief", module_name |-> "03_lid",
       func_name |-> "create_lid"],
      [name |-> "04 - Dragon Knob Handle", module_name |-> "04_dragon_knob",
       func_name |-> "create_dragon_knob"],
      [name |-> "05 - Corner Accent (x4)", module_name |-> "05_corner_accents",
       func_name |-> "create_corner_accent"],
      [name |-> "06 - Dragon Claw Foot (x4)", module_name |-> "06_claw_feet",
       func_name |-> "create_claw_foot"]>>

\* The part the loop is at.
Part == parts[part_i + 1]

\* The for statement takes the next part, or the loop is over.
NextPartStep == IF part_i + 1 < Len(parts) THEN "import" ELSE "summary"

\* RecordFailed that leaves the loop at the first failure.
RecordFailedAborting(where) ==
    /\ results' = Append(results, [name |-> Part.name, status |-> "FAILED", info |-> where])
    /\ part_i' = part_i + 1
    /\ gstep' = "summary"

\* except Exception as e: results.append((name, "FAILED", str(e))); the
\* for loop goes on.
RecordFailed(where) ==
    /\ results' = Append(results, [name |-> Part.name, status |-> "FAILED", info |-> where])
    /\ part_i' = part_i + 1
    /\ gstep' = NextPartStep

\* module = __import__(module_name); func = getattr(module, func_name);
\* from utils import export_stl, validate_print_bounds
ImportPart ==
    /\ UNCHANGED <<decVars, pkgVars, first_doc, setVars>>
    /\ gstep = "import"
    /\ attempted' = Append(attempted, Part.module_name)
    /\ \E ok \in BOOLEAN :
           IF ok
           THEN gstep' = "build" /\ UNCHANGED <<part_i, results>>
           ELSE RecordFailed("import")
    /\ UNCHANGED <<oversize, summary>>

\* shape = func()
BuildPart ==
    /\ UNCHANGED <<decVars, pkgVars, first_doc, setVars>>
    /\ gstep = "build"
    /\ \E ok \in BOOLEAN :
           IF ok
           THEN gstep' = "validate" /\ UNCHANGED <<part_i, results>>
           ELSE RecordFailed("build")
    /\ UNCHANGED <<attempted, oversize, summary>>

\* validate_print_bounds(shape): the bounding box may raise; a shape that
\* does not fit prints a WARNING and the returned pair is dropped.
ValidatePart ==
    /\ UNCHANGED <<decVars, pkgVars, first_doc, setVars>>
    /\ gstep = "validate"
    /\ \E ok \in BOOLEAN, fits \in BOOLEAN :
           IF ok
           THEN /\ gstep' = "export"
                /\ oversize' = IF fits THEN oversize ELSE Append(oversize, Part.module_name)
                /\ UNCHANGED <<part_i, results>>
           ELSE /\ fits
                /\ RecordFailed("validate")
                /\ UNCHANGED oversize
    /\ UNCHANGED <<attempted, summary>>

\* export_stl(shape, stl_name); results.append((name, "OK", elapsed))
ExportPart ==
    /\ UNCHANGED <<decVars, pkgVars, first_doc, setVars>>
    /\ gstep = "export"
    /\ \E ok \in BOOLEAN :
           IF ok
           THEN /\ results' = Append(results,
                                     [name |-> Part.name, status |-> "OK", info |-> "elapsed"])
                /\ part_i' = part_i + 1
                /\ gstep' = NextPartStep
           ELSE RecordFailed("export")
    /\ UNCHANGED <<attempted, oversize, summary>>

\* for name, status, info in results: print(icon, name, status, info)
PrintSummary ==
    /\ UNCHANGED <<decVars, pkgVars, first_doc, setVars>>
    /\ gstep = "summary"
    /\ summary' = [k \in 1..Len(results) |->
                     [icon |-> IF results[k].status = "OK" THEN "ok" ELSE "x",
                      name |-> results[k].name, status |-> results[k].status,
                      info |-> results[k].info]]
    /\ gstep' = "done"
    /\ UNCHANGED <<part_i, results, attempted, oversize>>

GenInit ==
    /\ DecIdle
    /\ PkgIdle
    /\ SetIdle
    /\ first_doc = NoDoc
    /\ gstep = "import"
    /\ part_i = 0
    /\ results = <<>>
    /\ attempted = <<>>
    /\ oversize = <<>>
    /\ summary = <<>>

GenNext ==
    \/ ImportPart
    \/ BuildPart
    \/ ValidatePart
    \/ ExportPart
    \/ PrintSummary

\* main is one sequential run: each statement is reached as soon as the one
\* before it returns or raises.
SpecGenerate == GenInit /\ [][GenNext]_vars /\ WF_vars(GenNext)

----------------------------------------------------------------------------
(* The decoder's claims, under SpecDecode *)

VertexPositions(key) == { i \in 1..Len(vertices) : vertices[i] = key }

\* A buffer shorter than its header, or than its declared count implies.
ShortBuffer(buf) ==
    \/ buf.len < FIRST_RECORD
    \/ buf.len < FIRST_RECORD + RECORD_STRIDE * buf.count

\* C1: in the returned mesh no two vertex entries have equal rounded
\* coordinates, and the rounded coordinate of every corner of every decoded
\* record is in the vertex list exactly once.
C1_NoDuplicateVertices ==
    pc = "done" =>
        /\ \A i, j \in 1..Len(vertices) : i # j => vertices[i] # vertices[j]
        /\ \A k \in 1..data.count : \A j \in 1..3 :
               Cardinality(VertexPositions(RoundedKey(data.recs[k][j]))) = 1

\* A mesh was returned in which two different raw corners of two different
\* records, and two corners of one record, round to one coordinate.
C1_Witness ==
    /\ pc = "done"
    /\ \E k1, k2 \in 1..data.count : \E j1, j2 \in 1..3 :
          /\ k1 # k2
          /\ data.recs[k1][j1] # data.recs[k2][j2]
          /\ RoundedKey(data.recs[k1][j1]) = RoundedKey(data.recs[k2][j2])
    /\ \E k \in 1..data.count : RoundedKey(data.recs[k][1]) = RoundedKey(data.recs[k][2])

IndicesInRange(t) == \A j \in 1..Len(t) : t[j] >= 0 /\ t[j] < Len(vertices)

\* C2: at every step of decoding, and in the returned mesh, every index of
\* every stored triangle and of the triangle being built is in
\* [0, len(vertices)) of the vertex list built so far.
C2_IndicesInRange ==
    /\ \A k \in 1..Len(triangles) : IndicesInRange(triangles[k])
    /\ IndicesInRange(tri_indices)

\* Mid-record, after one whole triangle: an index was just stored while the
\* vertex list is still growing.
C2_Witness ==
    /\ pc = "corner"
    /\ vi = 2
    /\ Len(triangles) >= 1
    /\ Len(vertices) >= 3

\* C3: the decoder returns exactly as many triangles as the header declares,
\* in record order, and the vertex at index triangles[k][j] is the rounded
\* coordinate of corner j of record k.
C3_RecordOrderPreserved ==
    pc = "done" =>
        /\ Len(triangles) = data.count
        /\ \A k \in 1..Len(triangles) :
              /\ Len(triangles[k]) = 3
              /\ \A j \in 1..3 :
                    vertices[triangles[k][j] + 1] = RoundedKey(data.recs[k][j])

\* A returned mesh of three triangles, one with all corners coinciding and one
\* whose index triple reads differently backwards.
C3_Witness ==
    /\ pc = "done"
    /\ data.count = 3
    /\ \E k \in 1..Len(triangles) : triangles[k][1] = triangles[k][2] /\ triangles[k][2] = triangles[k][3]
    /\ \E k \in 1..Len(triangles) : triangles[k][1] # triangles[k][3]

\* C4: decoding a buffer shorter than 84 bytes, or shorter than
\* 84 + 50 * (declared count), never returns a mesh; the call ends only by
\* raising the format failure (Python's struct.error).
C4_ShortBufferRaises ==
    ShortBuffer(data) =>
        /\ pc # "done"
        /\ pc = "raised" => raised = "struct.error"
        /\ ~ENABLED DecodeNext => pc = "raised"

\* The call failed on a missing record after whole triangles had been decoded.
C4_Witness ==
    /\ pc = "raised"
    /\ raised = "struct.error"
    /\ data.len >= FIRST_RECORD
    /\ Len(triangles) >= 1
    /\ Len(triangles) < data.count

----------------------------------------------------------------------------
(* The packaging claims, under Spec *)

CallEnded == step \in {"done", "raised"}

\* C5: in create_3mf a color body whose tag is not in the palette is never
\* packaged: the call raises UnknownMaterialError instead of writing an
\* object for it.
C5_UnknownTagRaises ==
    fn = "create_3mf" =>
        \A i \in 1..Len(resources) :
            entries[i].tag \notin PaletteTags => exc = "UnknownMaterialError"

Extent(i) == entries[i].shape.bb.xlen

\* Sum over j <= k of (e_j + s).
RECURSIVE Advance(_)
Advance(k) == IF k = 0 THEN 0 ELSE Advance(k - 1) + (Extent(k) + spacing)

\* The loop placed every object and the width was computed.
LaidOut == fn \in SideBySide /\ step # "loop" /\ idx = Len(entries)

\* C6: object i starts at the sum over j < i of (e_j + s); for n >= 1 the
\* total width is the last start plus the last extent; extents 10, 20, 30
\* with spacing 5 start at 0, 15, 40 and are 70 wide.
C6_CursorPositions ==
    fn \in SideBySide =>
        /\ \A i \in 1..Len(placements) : placements[i].start = Advance(i - 1)
        /\ (LaidOut /\ Len(entries) >= 1) =>
               total_width = placements[Len(entries)].start + Extent(Len(entries))
        /\ (LaidOut /\ Len(entries) = 3 /\ spacing = Mm(5)
              /\ Extent(1) = Mm(10) /\ Extent(2) = Mm(20) /\ Extent(3) = Mm(30)) =>
               /\ placements[1].start = 0
               /\ placements[2].start = Mm(15)
               /\ placements[3].start = Mm(40)
               /\ total_width = Mm(70)

\* The spec's example has been laid out: extents 10, 20, 30, spacing 5.
C6_Witness ==
    /\ LaidOut
    /\ Len(entries) = 3
    /\ spacing = Mm(5)
    /\ Extent(1) = Mm(10) /\ Extent(2) = Mm(20) /\ Extent(3) = Mm(30)
    /\ total_width = Mm(70)

\* C7: the computed translation moves each placed object's bounding box so
\* that its minimum x is the cursor position it was placed at and its
\* minimum y and z are 0.
C7_TranslationAlignsBox ==
    fn \in SideBySide =>
        \A i \in 1..Len(placements) :
            LET bb == entries[i].shape.bb
                off == placements[i].offset
            IN  /\ bb.xmin + off[1] = placements[i].start
                /\ bb.ymin + off[2] = 0
                /\ bb.zmin + off[3] = 0

\* A box with negative minimum bounds on all three axes was placed at a
\* cursor position above 0.
C7_Witness ==
    /\ fn \in SideBySide
    /\ \E i \in 1..Len(placements) :
          /\ placements[i].start > 0
          /\ entries[i].shape.bb.xmin < 0
          /\ entries[i].shape.bb.ymin < 0
          /\ entries[i].shape.bb.zmin < 0

\* C8: with non-negative spacing (extents are never negative) the placed
\* x-intervals do not overlap in their interiors, and each object starts
\* exactly the spacing after the end of the one before it.
C8_NoOverlap ==
    (fn \in SideBySide /\ spacing >= 0) =>
        /\ \A i, j \in 1..Len(placements) :
               i < j => placements[i].start + Extent(i) <= placements[j].start
        /\ \A i \in 1..(Len(placements) - 1) :
               placements[i + 1].start - (placements[i].start + Extent(i)) = spacing

\* Three objects placed with a positive spacing.
C8_Witness ==
    /\ fn \in SideBySide
    /\ spacing > 0
    /\ Len(placements) = 3
    /\ \A i \in 1..3 : Extent(i) > 0

\* C9: when a packaging call has ended, the destination holds either the
\* complete archive of this call or exactly what it held before the call.
C9_DestinationAtomic ==
    CallEnded => \/ dest = dest0
                 \/ dest.complete /\ dest.gen = "this"

AllDecodable == \A i \in 1..Len(entries) : ShapeToTriangles(entries[i].shape).raised = "none"
SomeEmptyMesh == \E i \in 1..Len(entries) : ShapeToTriangles(entries[i].shape).vertices = <<>>

\* C10: a packaging call over a list in which some object's mesh has zero
\* vertices (every mesh being decodable and the file system not failing)
\* ends in SerializationError with the destination as it was before the call.
C10_EmptyMeshRejected ==
    (CallEnded /\ AllDecodable /\ SomeEmptyMesh /\ exc # "OSError") =>
        /\ exc = "SerializationError"
        /\ dest = dest0

Undecodable(i) == ShapeToTriangles(entries[i].shape).raised # "none"
\* The first object of the list whose mesh cannot be decoded.
FirstUndecodable == CHOOSE k \in 1..Len(entries) :
                        Undecodable(k) /\ \A j \in 1..(k - 1) : ~Undecodable(j)

\* C11: when the k-th object of a package cannot be decoded, the call can
\* end only by raising the decoding failure at object k: the destination
\* stays as it was before the call (no archive of the other objects is
\* written), and no object from k on is made into an output object.
C11_DecodeFailureAborts ==
    ~AllDecodable =>
        /\ dest = dest0
        /\ step \in {"loop", "raised"}
        /\ idx < FirstUndecodable
        /\ Len(resources) < FirstUndecodable
        /\ Len(build) < FirstUndecodable
        /\ step = "raised" => (exc = "struct.error" /\ idx = FirstUndecodable - 1)

\* The second of three objects failed to decode, after the first had been
\* made into an object, with an earlier archive at the destination.
C11_Witness ==
    /\ step = "raised"
    /\ exc = "struct.error"
    /\ Len(entries) = 3
    /\ Len(resources) = 1
    /\ ~Undecodable(3)
    /\ dest0.exists
    /\ dest = dest0

Overflows == LaidOut /\ total_width > Mm(PLATE_MAX_MM)

\* C12: in the side-by-side paths a combined width above 270 mm raises
\* nothing: the call goes on to open and write the archive, and when it
\* returns the destination holds this call's complete archive with every
\* entry and every object of the list.
C12_OverflowDoesNotAbort ==
    Overflows =>
        /\ exc \in {"none", "OSError"}
        /\ exc = "none" => step \in {"open", "write", "done"}
        /\ step = "done" =>
               /\ dest.complete /\ dest.gen = "this"
               /\ dest.names = EntryNames(fn)
               /\ Len(resources) = Len(entries)
               /\ Len(build) = Len(entries)

\* export_combined_3mf returned after writing a layout wider than the plate.
C12_Witness ==
    /\ fn = "export_combined_3mf"
    /\ Overflows
    /\ Len(entries) >= 2
    /\ step = "done"
    /\ dest.complete

\* C13: in both side-by-side paths the plate-overflow warning is given
\* exactly when the combined width is above 270 mm.
C13_WarningIffOverflow ==
    LaidOut => (warned <=> total_width > Mm(PLATE_MAX_MM))

OrcaEntrySet == {"[Content_Types].xml", "_rels/.rels", "3D/3dmodel.model",
                 "Metadata/project_settings.config", "Metadata/plate_1.config"}
QidiEntrySet == {"[Content_Types].xml", "_rels/.rels", "3D/3dmodel.model",
                 "Metadata/project_settings.config", "Metadata/model_settings.config",
                 "Metadata/slice_info.config", "Metadata/cut_information.xml",
                 "Metadata/filament_sequence.json"}
Written == { dest.names[i] : i \in 1..Len(dest.names) }

\* C17: an archive this call writes never holds an entry name twice, and
\* once complete it holds exactly the entry set of its convention, whatever
\* the number of objects: the five Orca entries with the settings as
\* "key = value" lines (create_3mf, steps_to_combined_3mf), or the eight QIDI
\* entries with the settings as JSON (export_combined_3mf).
C17_FixedEntrySet ==
    dest.gen = "this" =>
        /\ \A i, j \in 1..Len(dest.names) : i # j => dest.names[i] # dest.names[j]
        /\ dest.complete =>
               /\ Written = (IF fn = "export_combined_3mf" THEN QidiEntrySet ELSE OrcaEntrySet)
               /\ \A i \in 1..Len(dest.names) :
                      dest.names[i] = "Metadata/project_settings.config" =>
                          dest.formats[i] = (IF fn = "export_combined_3mf" THEN "json" ELSE "lines")

\* export_combined_3mf completed an archive of three objects over an
\* earlier archive.
C17_Witness ==
    /\ fn = "export_combined_3mf"
    /\ Len(entries) = 3
    /\ dest0.exists
    /\ dest.gen = "this"
    /\ dest.complete
    /\ Len(dest.names) = 8

\* C19: object ids are consecutive integers in input order and pairwise
\* distinct; in create_3mf the i-th object (0-based) has id i + 2 and no
\* object has the id of the material table its pid refers to (1); in the
\* side-by-side paths the i-th object has id i + 1.
C19_ObjectIds ==
    /\ \A i \in 1..Len(resources) :
           resources[i].id = (i - 1) + (IF fn = "create_3mf" THEN 2 ELSE 1)
    /\ \A i, j \in 1..Len(resources) : i # j => resources[i].id # resources[j].id
    /\ fn = "create_3mf" =>
           \A i, j \in 1..Len(resources) :
               resources[i].pid = 1 /\ resources[j].id # resources[i].pid

\* create_3mf returned a package of two color bodies.
C19_Witness ==
    /\ fn = "create_3mf"
    /\ step = "done"
    /\ Len(resources) = 2

\* The object loop is over and the model document is what gets written.
Packaged == step \in {"open", "write", "done"} \/ (step = "raised" /\ exc = "OSError")

----------------------------------------------------------------------------
(* The settings claims, under SpecSettings *)

\* The layers of the merge in order: the reference settings as the merge
\* starts from them (loaded, header keys removed), the ASA-GF overlay, the
\* caller's override.
Baseline == PopHeaders(ref_settings)
Layers == <<Baseline, AsagfOverlay, settings_override>>
LayerKeys == UNION { KeySet(Layers[i]) : i \in 1..Len(Layers) }
LastLayerWith(k) ==
    Layers[CHOOSE i \in 1..Len(Layers) :
              /\ k \in KeySet(Layers[i])
              /\ \A j \in (i + 1)..Len(Layers) : k \notin KeySet(Layers[j])]
IsHeaderKey(k) == \E i \in 1..Len(HeaderKeys) : HeaderKeys[i] = k
Merged == sstep \in {"merged", "built"}
NoRepeat(seq) == \A i, j \in 1..Len(seq) : i # j => seq[i] # seq[j]

\* C14: the merged settings hold exactly the keys of the layers, each with
\* the whole value (string or list) of the last layer that has the key, so
\* a key in no override keeps its baseline value; the project settings
\* built from them carry the same values; baseline {a:1, b:2} with an
\* override holding {b:9, c:7} gives a:1, b:9, c:7.
C14_LastLayerWins ==
    Merged =>
        /\ KeySet(settings) = LayerKeys
        /\ \A k \in LayerKeys : DictGet(settings, k) = DictGet(LastLayerWith(k), k)
        /\ sstep = "built" =>
               \A k \in LayerKeys : ~IsHeaderKey(k) =>
                   /\ k \in KeySet(project_config)
                   /\ DictGet(project_config, k) = DictGet(LastLayerWith(k), k)
        /\ (ref_settings = RefExample /\ settings_override = AreaOverride) =>
               SelectSeq(settings, LAMBDA e : e.key \in {"a", "b", "c"})
                   = <<Item("a", Scalar("1")), Item("b", Scalar("9")), Item("c", Scalar("7"))>>

\* Project settings were built from a reference file and an override that
\* share a list-valued key with the overlay, each with a different list.
C14_Witness ==
    /\ sstep = "built"
    /\ ref_settings = RefExported
    /\ settings_override = AreaOverride
    /\ DictGet(project_config, "printable_area") = ListOf(<<"0x0", "200x0">>)
    /\ DictGet(project_config, "a") = Scalar("1")

\* The keys of seq that are not in seen, in seq's order.
NewKeys(seq, seen) == SelectSeq(KeySeq(seq), LAMBDA k : k \notin seen)
ExpectedOrder ==
    KeySeq(Baseline)
        \o NewKeys(AsagfOverlay, KeySet(Baseline))
        \o NewKeys(settings_override, KeySet(Baseline) \cup KeySet(AsagfOverlay))

\* C15: the merged settings hold no key twice; the baseline keys come
\* first, in the baseline's order, whether or not an override replaced their
\* values, then the keys only the overlay and then only the override
\* introduced, in the order they introduced them; the project settings
\* iterate in the same order behind the three header keys.
C15_StableKeyOrder ==
    Merged =>
        /\ NoRepeat(KeySeq(settings))
        /\ KeySeq(settings) = ExpectedOrder
        /\ sstep = "built" =>
               /\ NoRepeat(KeySeq(project_config))
               /\ KeySeq(project_config)
                      = HeaderKeys \o SelectSeq(ExpectedOrder, LAMBDA k : ~IsHeaderKey(k))

\* Settings were merged in which the overlay and the override both replaced
\* a baseline key and both introduced keys of their own.
C15_Witness ==
    /\ sstep = "built"
    /\ ref_settings = RefExported
    /\ settings_override = MotorOverride
    /\ Len(settings) > Len(Baseline) + 3

\* The project settings a call with override ov embeds when it is the only
\* call made.
AloneConfig(ov) ==
    LET overlaid == DictUpdate(PopHeaders(ref_settings), AsagfOverlay)
        merged == IF ov # NoOverride THEN DictUpdate(overlaid, ov) ELSE overlaid
    IN  DictUpdate(HeaderConfig, merged)

\* C16: after any sequence of calls the module's overlay dict is what it
\* was at import, and every call embedded the project settings it embeds
\* when built alone; a call without override after the motor-mount call
\* has supports off and none of the motor-mount keys.
C16_NoCrossContamination ==
    /\ ORCA_SETTINGS_ASAGF = AsagfOverlay
    /\ \A i \in 1..Len(embedded) :
           /\ embedded[i].config = AloneConfig(embedded[i].override)
           /\ embedded[i].override = NoOverride =>
                  /\ DictGet(embedded[i].config, "enable_support") = Scalar("0")
                  /\ DictGet(embedded[i].config, "support_type") = Scalar("tree(auto)")
                  /\ "support_on_build_plate_only" \notin KeySet(embedded[i].config)
                  /\ "support_base_pattern" \notin KeySet(embedded[i].config)

\* main's sequence: the motor mounts with the support override, then the
\* bearing mounts without override.
C16_Witness ==
    /\ Len(embedded) = 2
    /\ embedded[1].override = MotorOverride
    /\ DictGet(embedded[1].config, "enable_support") = Scalar("1")
    /\ embedded[2].override = NoOverride

----------------------------------------------------------------------------
(* The repeated call, under SpecRepeat *)

----------------------------------------------------------------------------
(* Transforms, meshes and materials of the model document, under Spec *)

IdentityPart == <<1, 0, 0, 0, 1, 0, 0, 0, 1>>

C22_PrivateIndexSpace ==
    \A k \in 1..Len(resources) :
        LET vs == resources[k].vertices
            ts == resources[k].triangles
            stl == entries[k].shape.stl
        IN  /\ NoRepeat(vs)
            /\ Len(ts) >= 1 => ts[1][1] = 0
            /\ \A r \in 1..Len(ts) : \A j \in 1..3 :
                   /\ ts[r][j] >= 0 /\ ts[r][j] < Len(vs)
                   /\ vs[ts[r][j] + 1] = RoundedKey(stl.recs[r][j])

\* Two objects of one package hold the same coordinate, each in its own
\* vertex list, and a third object was decoded after them.
C22_Witness ==
    /\ Len(resources) = 3
    /\ \E i \in 1..Len(resources[1].vertices) : \E j \in 1..Len(resources[2].vertices) :
           resources[1].vertices[i] = resources[2].vertices[j]
    /\ Len(resources[3].triangles) >= 1

\* C23: in create_3mf every object of the model document has a material
\* index i with 0 <= i < (number of entries of the material table), for
\* palette tags and for tags outside the palette.
C23_MaterialIndexInRange ==
    fn = "create_3mf" =>
        \A i \in 1..Len(resources) :
            /\ resources[i].pindex >= 0
            /\ resources[i].pindex < Len(PaletteOrder)

\* A package was written whose bodies carry a tag outside the palette and
\* the palette's last tag.
C23_Witness ==
    /\ fn = "create_3mf"
    /\ step = "done"
    /\ Len(resources) = 2
    /\ entries[1].tag \notin PaletteTags
    /\ entries[2].tag = PaletteOrder[Len(PaletteOrder)]

----------------------------------------------------------------------------
(* Index order of the decoder, under SpecDecode *)

\* Corners the decoder has taken so far, in order, as rounded keys.
CornersTaken == 3 * rec_i + (IF pc = "corner" THEN vi ELSE 0)
TakenKey(n) == RoundedKey(data.recs[((n - 1) \div 3) + 1][((n - 1) % 3) + 1])
\* The index recorded for the n-th corner taken.
TakenIndex(n) ==
    IF n <= 3 * Len(triangles)
    THEN triangles[((n - 1) \div 3) + 1][((n - 1) % 3) + 1]
    ELSE tri_indices[n - 3 * Len(triangles)]
\* Distinct keys among the first n corners taken.
KeysBefore(n) == { TakenKey(m) : m \in 1..(n - 1) }

\* C24: at every step a key taken for the first time has the index equal
\* to the number of distinct keys taken before it, so the indices are
\* 0..len(vertices)-1 without gaps and the first corner of the first record
\* has index 0; every index recorded earlier still is the index of its key
\* in the map and in the vertex list.
C24_FirstOccurrenceOrder ==
    (pc \in {"loop", "corner", "done"} \/ (pc = "raised" /\ CornersTaken > 0)) =>
        /\ Len(vertices) = Cardinality(KeysBefore(CornersTaken + 1))
        /\ DOMAIN vertex_map = KeysBefore(CornersTaken + 1)
        /\ \A n \in 1..CornersTaken :
               /\ TakenKey(n) \notin KeysBefore(n) =>
                      TakenIndex(n) = Cardinality(KeysBefore(n))
               /\ vertex_map[TakenKey(n)] = TakenIndex(n)
               /\ vertices[TakenIndex(n) + 1] = TakenKey(n)

\* A mesh of three records was returned in which a key seen before came
\* again after later keys had been given their indices.
C24_Witness ==
    /\ pc = "done"
    /\ data.count = 3
    /\ Len(vertices) >= 3
    /\ \E n \in 1..CornersTaken :
           /\ TakenKey(n) \in KeysBefore(n)
           /\ TakenIndex(n) < Cardinality(KeysBefore(n)) - 1

\* C25: the k-th object of the resources is the k-th input, and its
\* vertex and triangle elements are the entries of the lists its decode
\* returned, one element per entry in the same order; a document that is
\* serialised holds one object per input.
C25_OneElementPerEntry ==
    /\ Len(resources) <= Len(entries)
    /\ \A k \in 1..Len(resources) :
           LET mesh == ShapeToTriangles(entries[k].shape)
           IN  /\ Len(resources[k].vertices) = Len(mesh.vertices)
               /\ \A i \in 1..Len(mesh.vertices) : resources[k].vertices[i] = mesh.vertices[i]
               /\ Len(resources[k].triangles) = Len(mesh.triangles)
               /\ \A i \in 1..Len(mesh.triangles) : resources[k].triangles[i] = mesh.triangles[i]
    /\ Packaged => Len(resources) = Len(entries)

\* export_combined_3mf wrote three objects with different meshes, one of
\* them of two triangles over three vertices.
C25_Witness ==
    /\ fn = "export_combined_3mf"
    /\ step = "done"
    /\ Len(resources) = 3
    /\ Len(resources[1].triangles) = 1
    /\ Len(resources[2].triangles) = 2
    /\ Len(resources[2].vertices) = 3

\* create_3mf has written the per-object plate config of this call.
PlateWritten ==
    /\ fn = "create_3mf"
    /\ dest.gen = "this"
    /\ \E n \in 1..Len(dest.names) : dest.names[n] = "Metadata/plate_1.config"

\* C26: the plate config of create_3mf lists every object once in the
\* object section and once in the plate section, in input order; the
\* extruder of an object with a palette tag is FILAMENT_SLOTS[tag] + 1, every
\* extruder is at least 1, and objects with different palette tags have
\* different extruders.
C26_PlateConfigExtruders ==
    /\ \A t \in PaletteTags : t \in DOMAIN FILAMENT_SLOTS
    /\ PlateWritten =>
        LET cfg == dest.plate
        IN  /\ Len(cfg.objects) = Len(entries)
            /\ Len(cfg.plate) = Len(entries)
            /\ \A i \in 1..Len(entries) :
                   /\ cfg.objects[i].id = resources[i].id
                   /\ cfg.plate[i] = resources[i].id
                   /\ cfg.objects[i].name = entries[i].tag
                   /\ cfg.objects[i].extruder >= 1
                   /\ entries[i].tag \in PaletteTags =>
                          cfg.objects[i].extruder = FILAMENT_SLOTS[entries[i].tag] + 1
            /\ \A i, j \in 1..Len(entries) :
                   /\ i # j => cfg.objects[i].id # cfg.objects[j].id
                   /\ i # j => cfg.plate[i] # cfg.plate[j]
                   /\ (/\ entries[i].tag \in PaletteTags
                       /\ entries[j].tag \in PaletteTags
                       /\ entries[i].tag # entries[j].tag) =>
                          cfg.objects[i].extruder # cfg.objects[j].extruder

\* create_3mf finished a package of an ASA-GF body (slot 0) and a red body.
C26_Witness ==
    /\ PlateWritten
    /\ step = "done"
    /\ Len(entries) = 2
    /\ entries[1].tag = "asagf"
    /\ entries[2].tag = "red"
    /\ dest.plate.objects[1].extruder = 1
    /\ dest.plate.objects[2].extruder = 2

\* C27: for every object of a multi-color package, also one whose tag is not
\* in the palette, the extruder in the plate config is the filament slot of
\* the palette tag at the object's material index, plus one.
C27_ColorMatchesExtruder ==
    PlateWritten =>
        \A i \in 1..Len(resources) :
            dest.plate.objects[i].extruder =
                FilamentSlot(PaletteOrder[resources[i].pindex + 1]) + 1

\* C28: the settings entry create_3mf writes is the ASA-GF profile exactly
\* when the selector is "asagf" and the PETG profile for every other
\* selector; no selector makes the call raise: a call that raised did so in
\* the tessellation or in the archive writes.
C28_ProfileSelection ==
    fn = "create_3mf" =>
        /\ (dest.gen = "this" /\ \E n \in 1..Len(dest.names) : dest.names[n] = SETTINGS_ENTRY) =>
               /\ profile = "asagf" <=> dest.settings = "ORCA_SETTINGS_ASAGF"
               /\ profile # "asagf" <=> dest.settings = "ORCA_SETTINGS_PETG"
        /\ step = "raised" => exc \in {"struct.error", "OSError"}
        /\ step = "done" => dest.settings \in {"ORCA_SETTINGS_ASAGF", "ORCA_SETTINGS_PETG"}

\* create_3mf finished with a selector that names no profile and embedded
\* the PETG profile.
C28_Witness ==
    /\ fn = "create_3mf"
    /\ step = "done"
    /\ profile = "pla"
    /\ dest.complete
    /\ dest.settings = "ORCA_SETTINGS_PETG"

\* C29: in the project settings export_combined_3mf embeds, version, name and
\* from carry the values the exporter sets (QIDISTUDIO_VERSION,
\* "project_settings", "project"), whatever the reference file, the overlay
\* or the override hold for those keys.
C29_HeaderKeysKept ==
    sstep = "built" =>
        /\ DictGet(project_config, "version") = Scalar(QIDISTUDIO_VERSION)
        /\ DictGet(project_config, "name") = Scalar("project_settings")
        /\ DictGet(project_config, "from") = Scalar("project")

----------------------------------------------------------------------------
(* The part loop of generate_all, under SpecGenerate *)

\* What the loop has recorded so far is one entry per finished part, in the
\* listed order, and every part up to the current one was attempted.
OneResultPerPart ==
    /\ Len(results) = part_i
    /\ \A k \in 1..Len(results) :
           /\ results[k].name = parts[k].name
           /\ results[k].status \in {"OK", "FAILED"}
           /\ results[k].status = "FAILED" <=>
                  results[k].info \in {"import", "build", "validate", "export"}
    /\ Len(attempted) >= Len(results)
    /\ Len(attempted) <= Len(parts)
    /\ \A k \in 1..Len(attempted) : attempted[k] = parts[k].module_name
    /\ gstep \in {"build", "validate", "export"} => Len(attempted) = part_i + 1
    /\ gstep \in {"summary", "done"} => Len(results) = Len(parts)
    /\ gstep = "done" =>
           /\ Len(summary) = Len(parts)
           /\ \A k \in 1..Len(summary) :
                  /\ summary[k].name = parts[k].name
                  /\ summary[k].status = results[k].status

\* The summary was printed with an entry for each of the six parts, all of
\* them attempted.
SummaryOfSix ==
    /\ gstep = "done"
    /\ Len(summary) = 6
    /\ Len(attempted) = 6

\* C30: the loop records exactly one entry per part in the listed order, OK
\* or FAILED, a FAILED entry for a part whose import, build, validation or
\* export raised; every part after a failed one is still attempted, and
\* every run ends with a summary of six entries.
C30_OneResultPerPart == [](OneResultPerPart) /\ <>(SummaryOfSix)

\* A run in which the first four parts failed, one in each step, the last
\* two were generated, one of them with a build-volume warning, and the
\* summary has six entries.
C30_Witness ==
    /\ gstep = "done"
    /\ Len(summary) = 6
    /\ summary[1].status = "FAILED" /\ summary[1].info = "import"
    /\ summary[2].status = "FAILED" /\ summary[2].info = "build"
    /\ summary[3].status = "FAILED" /\ summary[3].info = "validate"
    /\ summary[4].status = "FAILED" /\ summary[4].info = "export"
    /\ summary[5].status = "OK"
    /\ summary[6].status = "OK"
    /\ oversize = <<"06_claw_feet">>
====
